---- MODULE Spec2Model ----
(***************************************************************************)
(* BFF simulation engine (BFFSimulation, PRNG) as a state machine.         *)
(*                                                                         *)
(* Numbers.  JavaScript numbers that are integers are modelled by          *)
(* integers.  A 32-bit word is a record [hi, lo] of two 16-bit halves so   *)
(* that no intermediate value leaves the range of the checker's integers.  *)
(* A quotient a / b is kept as the record [num |-> a, den |-> b].  Shannon *)
(* entropy is kept in millionths of a bit (fixed point).                   *)
(***************************************************************************)
EXTENDS Integers, Sequences, FiniteSets, TLC

\* ------------------------------------------------------------------------
\* Opcodes
\* ------------------------------------------------------------------------
CMD_LEFT == 60
CMD_RIGHT == 62
CMD_H1_DEC == 123
CMD_H1_INC == 125
CMD_DEC == 45
CMD_INC == 43
CMD_COPY_0_TO_1 == 46
CMD_COPY_1_TO_0 == 44
CMD_JZ == 91
CMD_JNZ == 93

VALID_OPS ==
  << CMD_LEFT, CMD_RIGHT, CMD_H1_DEC, CMD_H1_INC, CMD_DEC, CMD_INC,
     CMD_COPY_0_TO_1, CMD_COPY_1_TO_0, CMD_JZ, CMD_JNZ >>

CENSUS_INTERVAL == 50

\* ------------------------------------------------------------------------
\* Bitwise operators of JavaScript on non-negative integers below 2^16
\* ------------------------------------------------------------------------
Half == 256 * 256

\* The operators on 4-bit digits, as tables.
Bit(a, i) == (a \div << 1, 2, 4, 8 >>[i + 1]) % 2

NibbleAnd ==
  [a \in 0 .. 15 |-> [b \in 0 .. 15 |->
     Bit(a, 0) * Bit(b, 0) + 2 * (Bit(a, 1) * Bit(b, 1))
       + 4 * (Bit(a, 2) * Bit(b, 2)) + 8 * (Bit(a, 3) * Bit(b, 3))]]

NibbleXor ==
  [a \in 0 .. 15 |-> [b \in 0 .. 15 |->
     ((Bit(a, 0) + Bit(b, 0)) % 2) + 2 * ((Bit(a, 1) + Bit(b, 1)) % 2)
       + 4 * ((Bit(a, 2) + Bit(b, 2)) % 2) + 8 * ((Bit(a, 3) + Bit(b, 3)) % 2)]]

\* a & b, a | b and a ^ b for 0 <= a, b < 2^16, digit by digit
BitAnd(a, b) ==
  NibbleAnd[a % 16][b % 16]
    + 16 * NibbleAnd[(a \div 16) % 16][(b \div 16) % 16]
    + 256 * NibbleAnd[(a \div 256) % 16][(b \div 256) % 16]
    + 4096 * NibbleAnd[a \div 4096][b \div 4096]

BitXor(a, b) ==
  NibbleXor[a % 16][b % 16]
    + 16 * NibbleXor[(a \div 16) % 16][(b \div 16) % 16]
    + 256 * NibbleXor[(a \div 256) % 16][(b \div 256) % 16]
    + 4096 * NibbleXor[a \div 4096][b \div 4096]

BitOr(a, b) == BitXor(a, b) + BitAnd(a, b)

\* x & m for an integer x of either sign and a mask 0 <= m < 2^16
\* (two's complement: the low 16 bits of x are x mod 2^16).
Masked(x, m) == BitAnd(x % Half, m)

\* ------------------------------------------------------------------------
\* 32-bit words as [hi, lo]
\* ------------------------------------------------------------------------
Word(h, l) == [hi |-> h, lo |-> l]

Xor32(a, b) == Word(BitXor(a.hi, b.hi), BitXor(a.lo, b.lo))

\* w | c for a constant 0 <= c < 2^16
OrLow32(w, c) == Word(w.hi, BitOr(w.lo, c))

Pow2(k) == CASE k = 0 -> 1 [] k = 1 -> 2 [] k = 2 -> 4 [] k = 7 -> 128
             [] k = 8 -> 256 [] k = 9 -> 512 [] k = 14 -> 16384
             [] k = 15 -> 32768 [] OTHER -> Half

\* w >>> k for 0 < k < 16
Shr32(w, k) ==
  Word(w.hi \div Pow2(k), (w.hi % Pow2(k)) * Pow2(16 - k) + w.lo \div Pow2(k))

\* (a + b) mod 2^32
Add32(a, b) ==
  LET l == a.lo + b.lo
  IN  Word((a.hi + b.hi + l \div Half) % Half, l % Half)

\* low 16 bits of the product of two 16-bit values
MulLow16(a, b) ==
  LET a1 == a \div 256  a0 == a % 256
      b1 == b \div 256  b0 == b % 256
  IN  (a0 * b0 + ((a1 * b0 + a0 * b1) % 256) * 256) % Half

\* bits 16..31 of the product of two 16-bit values
MulHigh16(a, b) ==
  LET a1 == a \div 256  a0 == a % 256
      b1 == b \div 256  b0 == b % 256
      mid == (a1 * b0 + a0 * b1) * 256 + a0 * b0
  IN  (a1 * b1 + mid \div Half) % Half

\* Math.imul: the low 32 bits of the product
Imul32(a, b) ==
  Word((MulHigh16(a.lo, b.lo) + MulLow16(a.hi, b.lo) + MulLow16(a.lo, b.hi)) % Half,
       MulLow16(a.lo, b.lo))

\* ------------------------------------------------------------------------
\* PRNG (Mulberry32).  The field `state` is a JavaScript number: `+=` adds
\* without wrapping, so state.hi is not reduced modulo 2^16; only the bit
\* operators that follow see the value modulo 2^32.
\* ------------------------------------------------------------------------
PRNGNew(seed) == Word(seed \div Half, seed % Half)

\* state += 0x6d2b79f5, k times over (0x6d2b = 27947, 0x79f5 = 31221)
PRNGAdvanceBy(state, k) ==
  LET l == state.lo + k * 31221
  IN  Word(state.hi + k * 27947 + l \div Half, l % Half)

PRNGAdvance(state) == PRNGAdvanceBy(state, 1)

\* The 32-bit numerator u of the float u / 2^32 that next() returns,
\* computed from the state already advanced.
PRNGOutput(state) ==
  LET Last(t) == Xor32(t, Shr32(t, 14))
      Second(t) ==
        Last(Xor32(t, Add32(t, Imul32(Xor32(t, Shr32(t, 7)), OrLow32(t, 61)))))
      First(t) == Second(Imul32(Xor32(t, Shr32(t, 15)), OrLow32(t, 1)))
  IN  First(Word(state.hi % Half, state.lo))

\* floor(next() * n) for 0 <= n < 2^15, given the numerator u of next()
FloorTimes(u, n) == (u.hi * n + (u.lo * n) \div Half) \div Half

\* ------------------------------------------------------------------------
\* VM: execute(tape).  A tape is a function 0..2T-1 -> 0..255.
\* ------------------------------------------------------------------------
TapeLen(T) == T * 2
TapeMask(T) == TapeLen(T) - 1

\* Forward scan of the pre-pass from a '[': the loop of lines 460-466.
RECURSIVE ScanForward(_, _, _, _, _)
ScanForward(tape, T, depth, scanIp, scanned) ==
  IF depth > 0 /\ scanned < TapeLen(T)
  THEN LET instr == tape[Masked(scanIp, TapeMask(T))]
           d == IF instr = CMD_JZ THEN depth + 1
                ELSE IF instr = CMD_JNZ THEN depth - 1 ELSE depth
       IN  ScanForward(tape, T, d, scanIp + 1, scanned + 1)
  ELSE [depth |-> depth, scanIp |-> scanIp]

\* Backward scan of the pre-pass from a ']': the loop of lines 476-482.
RECURSIVE ScanBackward(_, _, _, _, _)
ScanBackward(tape, T, depth, scanIp, scanned) ==
  IF depth > 0 /\ scanned < TapeLen(T)
  THEN LET instr == tape[Masked(scanIp, TapeMask(T))]
           d == IF instr = CMD_JNZ THEN depth + 1
                ELSE IF instr = CMD_JZ THEN depth - 1 ELSE depth
       IN  ScanBackward(tape, T, d, scanIp - 1, scanned + 1)
  ELSE [depth |-> depth, scanIp |-> scanIp]

\* The jump table the pre-pass leaves: -1 where no match was found.
JumpTable(tape, T) ==
  [i \in 0 .. TapeLen(T) - 1 |->
     IF tape[i] = CMD_JZ
     THEN LET r == ScanForward(tape, T, 1, i + 1, 0)
          IN  IF r.depth = 0 THEN Masked(r.scanIp - 1, TapeMask(T)) ELSE -1
     ELSE IF tape[i] = CMD_JNZ
     THEN LET r == ScanBackward(tape, T, 1, i - 1, 0)
          IN  IF r.depth = 0 THEN Masked(r.scanIp + 1, TapeMask(T)) ELSE -1
     ELSE -1]

\* The locals of execute after the pre-pass and before the main loop.
VMStart(tape, T) ==
  [tape |-> tape, jumps |-> JumpTable(tape, T),
   head0 |-> 0, head1 |-> 0, ip |-> 0, cycles |-> 0,
   complexity |-> 0, copies |-> 0, neighborWrites |-> 0,
   returned |-> FALSE]

\* The main loop runs while this holds.
VMRunning(vm, limit) == ~vm.returned /\ vm.cycles < limit

\* Mutant of VMCount: every byte fetched counts as an instruction.
VMCountEveryByte(vm, after, T) ==
  [after EXCEPT
     !.complexity = after.complexity + 1,
     !.ip = after.ip + 1,
     !.cycles = after.cycles + 1]

\* Mutant of VMCount: a pass that jumped is not counted.
VMCountFreeJump(vm, after, T) ==
  [after EXCEPT
     !.complexity =
        IF vm.tape[Masked(vm.ip, TapeMask(T))]
             \in { VALID_OPS[k] : k \in 1 .. Len(VALID_OPS) }
        THEN after.complexity + 1 ELSE after.complexity,
     !.ip = after.ip + 1,
     !.cycles = IF after.ip # vm.ip THEN after.cycles ELSE after.cycles + 1]

\* Mutant of VMCount: a byte that is no opcode ends the run.
VMCountHalting(vm, after, T) ==
  [after EXCEPT
     !.complexity =
        IF vm.tape[Masked(vm.ip, TapeMask(T))]
             \in { VALID_OPS[k] : k \in 1 .. Len(VALID_OPS) }
        THEN after.complexity + 1 ELSE after.complexity,
     !.ip = after.ip + 1,
     !.cycles = after.cycles + 1,
     !.returned = vm.tape[Masked(vm.ip, TapeMask(T))]
                    \notin { VALID_OPS[k] : k \in 1 .. Len(VALID_OPS) }]

\* Mutant of VMCount: a copy is not counted as an instruction.
VMCountMovesOnly(vm, after, T) ==
  [after EXCEPT
     !.complexity =
        IF vm.tape[Masked(vm.ip, TapeMask(T))]
             \in { VALID_OPS[k] : k \in 1 .. Len(VALID_OPS) }
                   \ { CMD_COPY_0_TO_1, CMD_COPY_1_TO_0 }
        THEN after.complexity + 1 ELSE after.complexity,
     !.ip = after.ip + 1,
     !.cycles = after.cycles + 1]

\* The end of a pass that did not return (lines 546-549): `vm` the locals
\* at the start of the pass, `after` those the switch left.
VMCount(vm, after, T) ==
  [after EXCEPT
     !.complexity =
        IF vm.tape[Masked(vm.ip, TapeMask(T))]
             \in { VALID_OPS[k] : k \in 1 .. Len(VALID_OPS) }
        THEN after.complexity + 1 ELSE after.complexity,
     !.ip = after.ip + 1,
     !.cycles = after.cycles + 1]

\* Mutant of IsNeighborWrite: the first byte of B's half is taken for A's.
IsNeighborWriteBeyond(h1, T) == h1 > T

\* The test of line 506: head1 points into the second half of the tape.
IsNeighborWrite(h1, T) == h1 >= T

\* Mutant of VMReturnEarly: the bracket that ends the run is counted.
VMReturnEarlyCounted(vm) ==
  [vm EXCEPT !.returned = TRUE, !.complexity = vm.complexity + 1]

\* The return inside the main loop (lines 521-523 and 535-537): the
\* counters as they are, the tape as it is.
VMReturnEarly(vm) == [vm EXCEPT !.returned = TRUE]

\* One pass through the body of the main loop (lines 491-549).
VMCycle(vm, T) ==
  LET mask == TapeMask(T)
      Body(currentIp, h0, h1) ==
        LET instr == vm.tape[currentIp]
            taken == \/ instr = CMD_JZ /\ vm.tape[h0] = 0
                     \/ instr = CMD_JNZ /\ vm.tape[h0] # 0
            target == vm.jumps[currentIp]
        IN  IF taken /\ target = -1
            THEN VMReturnEarly(vm)
            ELSE VMCount(vm,
              CASE instr = CMD_LEFT ->
                     [vm EXCEPT !.head0 = Masked(vm.head0 - 1, mask)]
                [] instr = CMD_RIGHT ->
                     [vm EXCEPT !.head0 = Masked(vm.head0 + 1, mask)]
                [] instr = CMD_H1_DEC ->
                     [vm EXCEPT !.head1 = Masked(vm.head1 - 1, mask)]
                [] instr = CMD_H1_INC ->
                     [vm EXCEPT !.head1 = Masked(vm.head1 + 1, mask)]
                [] instr = CMD_DEC ->
                     [vm EXCEPT !.tape[h0] = (vm.tape[h0] - 1) % 256]
                [] instr = CMD_INC ->
                     [vm EXCEPT !.tape[h0] = (vm.tape[h0] + 1) % 256]
                [] instr = CMD_COPY_0_TO_1 ->
                     [vm EXCEPT !.tape[h1] = vm.tape[h0],
                                !.copies = vm.copies + 1,
                                !.neighborWrites =
                                   IF IsNeighborWrite(h1, T)
                                   THEN vm.neighborWrites + 1
                                   ELSE vm.neighborWrites]
                [] instr = CMD_COPY_1_TO_0 ->
                     [vm EXCEPT !.tape[h0] = vm.tape[h1],
                                !.copies = vm.copies + 1]
                [] taken /\ target # -1 -> [vm EXCEPT !.ip = target]
                [] OTHER -> vm,
              T)
  IN  Body(Masked(vm.ip, mask), Masked(vm.head0, mask), Masked(vm.head1, mask))

RECURSIVE VMRun(_, _, _)
VMRun(vm, T, limit) ==
  IF VMRunning(vm, limit) THEN VMRun(VMCycle(vm, T), T, limit) ELSE vm

\* execute(tape): the final locals; the tape is changed in place.
Execute(tape, T, limit) == VMRun(VMStart(tape, T), T, limit)

\* The execute of src/services/bffSimulation.ts, which keeps no jump table:
\* a taken bracket scans the tape as it is at that moment, from ip itself
\* (lines 414-445), and ip takes the unmasked position the scan ended at.
ScanningStart(tape) ==
  [tape |-> tape, head0 |-> 0, head1 |-> 0, ip |-> 0, cycles |-> 0,
   complexity |-> 0, copies |-> 0, neighborWrites |-> 0, returned |-> FALSE]

\* One pass through the body of its main loop (lines 390-449).
ScanningCycle(vm, T) ==
  LET mask == TapeMask(T)
      Jump(r, ip) ==
        IF r.depth = 0 THEN VMCount(vm, [vm EXCEPT !.ip = ip], T)
        ELSE VMReturnEarly(vm)
      Forward(r) == Jump(r, r.scanIp - 1)
      Backward(r) == Jump(r, r.scanIp + 1)
      Body(currentIp, h0, h1) ==
        LET instr == vm.tape[currentIp]
        IN  IF instr = CMD_JZ /\ vm.tape[h0] = 0
            THEN Forward(ScanForward(vm.tape, T, 1, vm.ip + 1, 0))
            ELSE IF instr = CMD_JNZ /\ vm.tape[h0] # 0
            THEN Backward(ScanBackward(vm.tape, T, 1, vm.ip - 1, 0))
            ELSE VMCount(vm,
              CASE instr = CMD_LEFT ->
                     [vm EXCEPT !.head0 = Masked(vm.head0 - 1, mask)]
                [] instr = CMD_RIGHT ->
                     [vm EXCEPT !.head0 = Masked(vm.head0 + 1, mask)]
                [] instr = CMD_H1_DEC ->
                     [vm EXCEPT !.head1 = Masked(vm.head1 - 1, mask)]
                [] instr = CMD_H1_INC ->
                     [vm EXCEPT !.head1 = Masked(vm.head1 + 1, mask)]
                [] instr = CMD_DEC ->
                     [vm EXCEPT !.tape[h0] = (vm.tape[h0] - 1) % 256]
                [] instr = CMD_INC ->
                     [vm EXCEPT !.tape[h0] = (vm.tape[h0] + 1) % 256]
                [] instr = CMD_COPY_0_TO_1 ->
                     [vm EXCEPT !.tape[h1] = vm.tape[h0],
                                !.copies = vm.copies + 1,
                                !.neighborWrites =
                                   IF IsNeighborWrite(h1, T)
                                   THEN vm.neighborWrites + 1
                                   ELSE vm.neighborWrites]
                [] instr = CMD_COPY_1_TO_0 ->
                     [vm EXCEPT !.tape[h0] = vm.tape[h1],
                                !.copies = vm.copies + 1]
                [] OTHER -> vm,
              T)
  IN  Body(Masked(vm.ip, mask), Masked(vm.head0, mask), Masked(vm.head1, mask))

RECURSIVE ScanningRun(_, _, _)
ScanningRun(vm, T, limit) ==
  IF VMRunning(vm, limit) THEN ScanningRun(ScanningCycle(vm, T), T, limit)
  ELSE vm

\* That execute(tape): the final locals.
ExecuteScanning(tape, T, limit) == ScanningRun(ScanningStart(tape), T, limit)

\* ------------------------------------------------------------------------
\* Quotients and entropy
\* ------------------------------------------------------------------------
Quot(n, d) == [num |-> n, den |-> d]

\* a / b > c / d for quotients with positive denominators
QuotGreater(p, q) == p.num * q.den > q.num * p.den

\* floor(log2(c / n)) for c, n > 0: the binary exponent of the double c / n
RECURSIVE BinaryExponent(_, _)
BinaryExponent(c, n) ==
  IF c >= n
  THEN IF c \div 2 >= n THEN 1 + BinaryExponent(c \div 2, n) ELSE 0
  ELSE BinaryExponent(2 * c, n) - 1

\* (c * 2^s) % n, by doubling
RECURSIVE ScaledRemainder(_, _, _)
ScaledRemainder(c, n, s) ==
  IF s = 0 THEN c % n ELSE (2 * ScaledRemainder(c, n, s - 1)) % n

\* The double c / n for integers 0 <= c, 0 < n: the quotient rounded to 53
\* significant bits.  With e its binary exponent the double is a multiple of
\* 2^(e - 52), and it is  c / n - r / (n * 2^(52 - e))  where r is the
\* remainder of c * 2^(52 - e) by n taken to the nearest multiple (no tie can
\* occur for n < 2^52).
DoubleQuotient(c, n) ==
  LET Rounded(e, rem) == [e |-> e, r |-> IF 2 * rem < n THEN rem ELSE rem - n]
      At(e) == Rounded(e, ScaledRemainder(c, n, 52 - e))
  IN  IF c = 0 THEN [e |-> 0, r |-> 0] ELSE At(BinaryExponent(c, n))

\* Math.floor((c / n) * N) in doubles, 0 <= c <= n, N > 0.  The product of
\* the double c / n with N is rounded once more.  Unless n divides c * N the
\* floor is that of the exact value.  When c * N / n is an integer m, the
\* product is m - r N / (n * 2^(52 - e)); it rounds to the double below m,
\* and the floor is m - 1, when that deviation exceeds half the gap below m:
\* 2^(E - 53) for m = 2^E, else 2^(E - 52), E the binary exponent of m.
FloorOfProduct(c, n, N) ==
  LET m == (c * N) \div n
      Below(x, E) ==
        IF 2 ^ E = m THEN 4 * x.r * N > n * 2 ^ (E - x.e)
        ELSE 2 * x.r * N > n * 2 ^ (E - x.e)
      Floor(x) == IF Below(x, BinaryExponent(m, 1)) THEN m - 1 ELSE m
  IN  IF (c * N) % n # 0 \/ m = 0 THEN m ELSE Floor(DoubleQuotient(c, n))

\* log2(k) in millionths of a bit, for 1 <= k <= 64
Log2Micro ==
  << 0, 1000000, 1584963, 2000000, 2321928, 2584963, 2807355, 3000000,
     3169925, 3321928, 3459432, 3584963, 3700440, 3807355, 3906891, 4000000,
     4087463, 4169925, 4247928, 4321928, 4392317, 4459432, 4523562, 4584963,
     4643856, 4700440, 4754888, 4807355, 4857981, 4906891, 4954196, 5000000,
     5044394, 5087463, 5129283, 5169925, 5209453, 5247928, 5285402, 5321928,
     5357552, 5392317, 5426265, 5459432, 5491853, 5523562, 5554589, 5584963,
     5614710, 5643856, 5672425, 5700440, 5727920, 5754888, 5781360, 5807355,
     5832890, 5857981, 5882643, 5906891, 5930737, 5954196, 5977280, 6000000 >>

\* The bytes sampled[1..n] as a histogram: how often b occurs.
CountOf(sampled, b) == Cardinality({ k \in 1 .. Len(sampled) : sampled[k] = b })

\* f[lo] + ... + f[hi], by halves
RECURSIVE SumRange(_, _, _)
SumRange(f, lo, hi) ==
  IF lo > hi THEN 0
  ELSE IF lo = hi THEN f[lo]
  ELSE LET mid == (lo + hi) \div 2
       IN  SumRange(f, lo, mid) + SumRange(f, mid + 1, hi)

\* -sum p log2 p over the non-empty bins, p = count / n, in millionths of a
\* bit.  A bin of count c adds (c / n) (log2 n - log2 c): each of its c
\* samples adds (log2 n - log2 c) / n.
ShannonMicro(sampled) ==
  LET n == Len(sampled)
      term == [k \in 1 .. n |->
                 Log2Micro[n] - Log2Micro[CountOf(sampled, sampled[k])]]
  IN  IF n = 0 THEN 0 ELSE SumRange(term, 1, n) \div n

\* Stride of both statistics passes: floor(1 / SAMPLE_RATE), made odd.
SampleStride ==
  LET step == 10 IN IF step % 2 = 0 THEN step + 1 ELSE step

\* The indices 0, step, 2 step, ... below len, in order.
StridedIndices(len) ==
  [k \in 1 .. (len + SampleStride - 1) \div SampleStride |-> (k - 1) * SampleStride]

\* calculateGenomeEntropy(genome), genome a sequence of bytes
calculateGenomeEntropy(genome) == ShannonMicro(genome)

\* calculateGridMetrics()
calculateGridMetrics(data) ==
  LET len == Cardinality(DOMAIN data)
      idx == StridedIndices(len)
      sampled == [k \in 1 .. Len(idx) |-> data[idx[k]]]
  IN  [entropy |-> ShannonMicro(sampled),
       zeroDensity |-> Quot(CountOf(sampled, 0), Len(sampled))]

\* ------------------------------------------------------------------------
\* Census
\* ------------------------------------------------------------------------
\* Number.prototype.toString for 0..255: the decimal digits.
Digit(d) == << "0", "1", "2", "3", "4", "5", "6", "7", "8", "9" >>[d + 1]

DecimalString(b) ==
  IF b < 10 THEN << Digit(b) >>
  ELSE IF b < 100 THEN << Digit(b \div 10), Digit(b % 10) >>
  ELSE << Digit(b \div 100), Digit((b \div 10) % 10), Digit(b % 10) >>

\* Elements lo..hi of a genome joined by ",", by halves
RECURSIVE JoinRange(_, _, _)
JoinRange(genome, lo, hi) ==
  IF lo > hi THEN << >>
  ELSE IF lo = hi THEN DecimalString(genome[lo])
  ELSE LET mid == (lo + hi) \div 2
       IN  JoinRange(genome, lo, mid) \o << "," >> \o JoinRange(genome, mid + 1, hi)

\* TypedArray.prototype.toString: the elements joined by ",".
GenomeToString(genome) == JoinRange(genome, 1, Len(genome))

DigitValue(c) == CHOOSE d \in 0 .. 9 : Digit(d) = c

\* Number(s) of a string of digits; Number("") is 0.
RECURSIVE NumberOf(_, _)
NumberOf(str, acc) ==
  IF Len(str) = 0 THEN acc
  ELSE NumberOf(Tail(str), acc * 10 + DigitValue(Head(str)))

\* code.split(',').map(Number), stored into a Uint8Array: field k lies
\* between the (k - 1)-th and the k-th comma.
SplitNumbers(code) ==
  LET commas == { p \in 1 .. Len(code) : code[p] = "," }
      comma(k) == CHOOSE p \in commas : Cardinality({ q \in commas : q < p }) = k - 1
      n == Cardinality(commas) + 1
      from(k) == IF k = 1 THEN 1 ELSE comma(k - 1) + 1
      to(k) == IF k = n THEN Len(code) ELSE comma(k) - 1
  IN  [k \in 1 .. n |-> NumberOf(SubSeq(code, from(k), to(k)), 0) % 256]

\* speciesMap after the sampling loop: a Map keeps its keys in insertion
\* order, here a sequence of [code, n].
RECURSIVE SpeciesMap(_, _)
SpeciesMap(keys, map) ==
  IF Len(keys) = 0 THEN map
  ELSE LET key == Head(keys)
           at == { k \in 1 .. Len(map) : map[k].code = key }
       IN  SpeciesMap(Tail(keys),
             IF at = {} THEN Append(map, [code |-> key, n |-> 1])
             ELSE [k \in 1 .. Len(map) |->
                     IF k \in at THEN [map[k] EXCEPT !.n = map[k].n + 1]
                     ELSE map[k]])

\* Mutant of SortByCountDesc: the species stay in the order of the map.
SortByCountDescSkipped(entries) == entries

\* Array.prototype.sort((a, b) => b[1] - a[1]): stable, descending by count.
RECURSIVE SortByCountDesc(_)
SortByCountDesc(entries) ==
  IF Len(entries) = 0 THEN << >>
  ELSE LET top == CHOOSE k \in 1 .. Len(entries) :
                    /\ \A j \in 1 .. Len(entries) : entries[j].n <= entries[k].n
                    /\ \A j \in 1 .. k - 1 : entries[j].n < entries[k].n
           rest == [j \in 1 .. Len(entries) - 1 |->
                      IF j < top THEN entries[j] ELSE entries[j + 1]]
       IN  << entries[top] >> \o SortByCountDesc(rest)

TopK == 5

\* performCensus()
performCensus(data, width, height, tapeSize) ==
  LET totalCells == width * height
      cells == StridedIndices(totalCells)
      actualSampleCount == Len(cells)
      genome(i) == [b \in 1 .. tapeSize |-> data[i * tapeSize + b - 1]]
      Census(speciesMap, sortedSpecies) ==
        [speciesCount |-> Len(speciesMap),
         topSpecies |->
           [index \in 1 .. Len(sortedSpecies) |->
              [rank |-> index,
               code |-> sortedSpecies[index].code,
               count |-> FloorOfProduct(sortedSpecies[index].n,
                                        actualSampleCount, totalCells),
               dominance |-> Quot(sortedSpecies[index].n, actualSampleCount),
               entropy |-> calculateGenomeEntropy(
                             SplitNumbers(sortedSpecies[index].code))]]]
      Top(sorted) ==
        SubSeq(sorted, 1, IF Len(sorted) < TopK THEN Len(sorted) ELSE TopK)
      Counted(speciesMap) ==
        Census(speciesMap, Top(SortByCountDesc(speciesMap)))
  IN  Counted(SpeciesMap(
        [k \in 1 .. Len(cells) |-> GenomeToString(genome(cells[k]))], << >>))

\* ------------------------------------------------------------------------
\* BFFSimulation: the engine as a record of its fields
\* ------------------------------------------------------------------------
\* One call of rng.next() used as floor(next() * n).
Draw(rng, n) ==
  LET state == PRNGAdvance(rng)
  IN  [rng |-> state, v |-> FloorTimes(PRNGOutput(state), n)]

Zeros(n) == [i \in 0 .. n - 1 |-> 0]

\* lastHistoryStats is null, or << s >> for the snapshot s.
NoStats == << >>

\* floor(next() * n) of the k-th call of next() from now (k >= 1): the
\* state then is the state now advanced k times.
DrawAt(rng, k, n) == FloorTimes(PRNGOutput(PRNGAdvanceBy(rng, k)), n)

\* The two fill loops of reset(): byte i takes the (i + 1)-th draw.
FillBytes(rng, n, seedingMode) ==
  LET choices == Append(VALID_OPS, 0)
  IN  [rng |-> PRNGAdvanceBy(rng, n),
       data |-> [i \in 0 .. n - 1 |->
                   IF seedingMode = "balanced"
                   THEN choices[DrawAt(rng, i + 1, Len(choices)) + 1]
                   ELSE DrawAt(rng, i + 1, 256)]]

\* reset() from line 131 on, the generator at line 129 being `rng`
Refill(e, rng) ==
  LET Install(filledRng, data, stats) ==
        [e EXCEPT !.rng = filledRng,
                  !.data = data,
                  !.stats = stats,
                  !.history = << stats >>,
                  !.lastHistoryStats = << stats >>,
                  !.epochInteractions = 0,
                  !.epochTotalComplexity = 0,
                  !.epochTotalCopies = 0,
                  !.epochTotalEffectiveCopies = 0]
      Snapshot(metrics, initialCensus) ==
        [epoch |-> 0,
         avgComplexity |-> Quot(0, 1),
         replicationRate |-> Quot(0, 1),
         effectiveReplication |-> Quot(0, 1),
         entropy |-> metrics.entropy,
         zeroDensity |-> metrics.zeroDensity,
         census |-> initialCensus,
         lastCensusEpoch |-> 0]
      Filled(fill) ==
        Install(fill.rng, fill.data,
                Snapshot(calculateGridMetrics(fill.data),
                         performCensus(fill.data, e.width, e.height,
                                       e.config.tapeSize)))
  IN  Filled(FillBytes(rng, Cardinality(DOMAIN e.data), e.config.seedingMode))

\* Mutant of Reset: the baseline is pushed onto the history that was there.
ResetKeepingHistory(e) ==
  LET Kept(r) == [r EXCEPT !.history = Append(e.history, r.stats)]
  IN  Kept(Refill(e, PRNGNew(e.config.seed)))

\* Mutant of Reset: the generator is not seeded again.
ResetKeepingGenerator(e) == Refill(e, e.rng)

\* reset()
Reset(e) == Refill(e, PRNGNew(e.config.seed))

\* new BFFSimulation(config)
Construct(config) ==
  Reset([config |-> config,
         width |-> config.gridWidth,
         height |-> config.gridHeight,
         epochSize |-> config.gridWidth * config.gridHeight,
         data |-> Zeros(config.gridWidth * config.gridHeight * config.tapeSize),
         interactionBuffer |-> Zeros(config.tapeSize * 2),
         jumpTable |-> Zeros(config.tapeSize * 2),
         rng |-> PRNGNew(config.seed),
         stats |-> << >>,
         history |-> << >>,
         lastHistoryStats |-> NoStats,
         epochInteractions |-> 0,
         epochTotalComplexity |-> 0,
         epochTotalCopies |-> 0,
         epochTotalEffectiveCopies |-> 0])

\* Mutant of MustReset: a new seed alone does not reset.
MustResetIgnoringSeed(e, newConfig) ==
  \/ newConfig.gridWidth # e.width
  \/ newConfig.gridHeight # e.height
  \/ newConfig.tapeSize # e.config.tapeSize

\* Mutant of MustReset: every update resets.
MustResetAlways(e, newConfig) == TRUE

\* The test of updateConfig: must the engine reset?
MustReset(e, newConfig) ==
  \/ newConfig.gridWidth # e.width
  \/ newConfig.gridHeight # e.height
  \/ newConfig.tapeSize # e.config.tapeSize
  \/ newConfig.seed # e.config.seed

\* Mutant of UpdateConfig: the grid buffer is not allocated anew.
UpdateConfigKeepingGrid(e, newConfig) ==
  IF MustReset(e, newConfig)
  THEN Reset([e EXCEPT
                !.config = newConfig,
                !.width = newConfig.gridWidth,
                !.height = newConfig.gridHeight,
                !.interactionBuffer = Zeros(newConfig.tapeSize * 2),
                !.jumpTable = Zeros(newConfig.tapeSize * 2),
                !.rng = PRNGNew(newConfig.seed)])
  ELSE [e EXCEPT !.config = newConfig]

\* updateConfig(newConfig)
UpdateConfig(e, newConfig) ==
  IF MustReset(e, newConfig)
  THEN Reset([e EXCEPT
                !.config = newConfig,
                !.width = newConfig.gridWidth,
                !.height = newConfig.gridHeight,
                !.data = Zeros(newConfig.gridWidth * newConfig.gridHeight
                                 * newConfig.tapeSize),
                !.interactionBuffer = Zeros(newConfig.tapeSize * 2),
                !.jumpTable = Zeros(newConfig.tapeSize * 2),
                !.rng = PRNGNew(newConfig.seed)])
  ELSE [e EXCEPT !.config = newConfig]

\* interact(), step 1: agent A (lines 189-191)
PickA(e) ==
  LET Picked(dx, dy) == [e |-> [e EXCEPT !.rng = dy.rng], x |-> dx.v, y |-> dy.v]
      Then(dx) == Picked(dx, Draw(dx.rng, e.height))
  IN  Then(Draw(e.rng, e.width))

\* Mutant of PickB: an aborted interaction is counted.
PickBCountingAbort(e, x, y) ==
  LET Global(dnx, dny) ==
        [e |-> [e EXCEPT !.rng = dny.rng], nx |-> dnx.v, ny |-> dny.v,
         again |-> (dnx.v = x /\ dny.v = y), abort |-> FALSE]
      GlobalThen(dnx) == Global(dnx, Draw(dnx.rng, e.height))
      Spatial(rng, dx, dy) ==
        [e |-> [e EXCEPT !.rng = rng,
                         !.epochInteractions =
                            IF dx = 0 /\ dy = 0 THEN e.epochInteractions + 1
                            ELSE e.epochInteractions],
         nx |-> (x + dx + e.width) % e.width,
         ny |-> (y + dy + e.height) % e.height,
         again |-> FALSE, abort |-> (dx = 0 /\ dy = 0)]
      SpatialNext(ddx, ddy) == Spatial(ddy.rng, ddx.v - 2, ddy.v - 2)
      SpatialThen(ddx) == SpatialNext(ddx, Draw(ddx.rng, 5))
  IN  IF e.config.topology = "global"
      THEN GlobalThen(Draw(e.rng, e.width))
      ELSE SpatialThen(Draw(e.rng, 5))

\* interact(), step 2: one pass of the do-while of the global topology,
\* or the offsets of the spatial one.  `again`: the loop repeats;
\* `abort`: interact returns at line 205.
PickB(e, x, y) ==
  LET Global(dnx, dny) ==
        [e |-> [e EXCEPT !.rng = dny.rng], nx |-> dnx.v, ny |-> dny.v,
         again |-> (dnx.v = x /\ dny.v = y), abort |-> FALSE]
      GlobalThen(dnx) == Global(dnx, Draw(dnx.rng, e.height))
      Spatial(rng, dx, dy) ==
        [e |-> [e EXCEPT !.rng = rng],
         nx |-> (x + dx + e.width) % e.width,
         ny |-> (y + dy + e.height) % e.height,
         again |-> FALSE, abort |-> (dx = 0 /\ dy = 0)]
      SpatialNext(ddx, ddy) == Spatial(ddy.rng, ddx.v - 2, ddy.v - 2)
      SpatialThen(ddx) == SpatialNext(ddx, Draw(ddx.rng, 5))
  IN  IF e.config.topology = "global"
      THEN GlobalThen(Draw(e.rng, e.width))
      ELSE SpatialThen(Draw(e.rng, 5))

CellIndex(e, x, y) == (y * e.width + x) * e.config.tapeSize

\* interact(), steps 3 and 4 and the tallies (lines 216-229)
RunTape(e, idxA, idxB) ==
  LET tapeSize == e.config.tapeSize
      Tally(r) ==
        [e EXCEPT !.interactionBuffer = r.tape,
                  !.jumpTable = r.jumps,
                  !.epochTotalComplexity = e.epochTotalComplexity + r.complexity,
                  !.epochTotalCopies = e.epochTotalCopies + r.copies,
                  !.epochTotalEffectiveCopies =
                     e.epochTotalEffectiveCopies + r.neighborWrites,
                  !.epochInteractions = e.epochInteractions + 1]
  IN  Tally(Execute([i \in 0 .. tapeSize * 2 - 1 |->
                       IF i < tapeSize THEN e.data[idxA + i]
                       ELSE e.data[idxB + i - tapeSize]],
                    tapeSize, e.config.instructionLimit))

\* Mutant of EpochDue: the epoch is closed one interaction early.
EpochDueEarly(e) == e.epochInteractions + 1 >= e.epochSize

\* The test of line 231.
EpochDue(e) == e.epochInteractions >= e.epochSize

\* The loop of mutate(): k overwrites; overwrite j (from 1) takes draw
\* 2j - 1 for its index and draw 2j for its value, and the last overwrite of
\* a byte is the one that stays.
MutateBytes(rng, data, k) ==
  LET Overwrite(idx, val) ==
        LET hits(i) == { j \in 1 .. k : idx[j] = i }
            Last(h) == CHOOSE j \in h : \A other \in h : other <= j
            Byte(i, h) == IF h = {} THEN data[i] ELSE val[Last(h)]
        IN  [i \in DOMAIN data |-> Byte(i, hits(i))]
  IN  [rng |-> PRNGAdvanceBy(rng, 2 * k),
       data |-> Overwrite(
         [j \in 1 .. k |-> DrawAt(rng, 2 * j - 1, Cardinality(DOMAIN data))],
         [j \in 1 .. k |-> DrawAt(rng, 2 * j, 256)])]

\* mutate().  mutationRate is a quotient whose denominator is a power of
\* two up to 2^16, so that totalBytes * mutationRate is exact.
Mutate(e) ==
  IF e.config.mutationRate.num <= 0 THEN e
  ELSE LET totalBytes == Cardinality(DOMAIN e.data)
           rate == e.config.mutationRate
           numMutations == (totalBytes * rate.num) \div rate.den
           fraction == (totalBytes * rate.num) % rate.den
           state == PRNGAdvance(e.rng)
           Mutated(m) == [e EXCEPT !.rng = m.rng, !.data = m.data]
       IN  \* next() < fraction / den, i.e. u < fraction * 2^32 / den
           Mutated(MutateBytes(state, e.data,
             IF PRNGOutput(state).hi < fraction * (Half \div rate.den)
             THEN numMutations + 1 ELSE numMutations))

\* Math.abs(a - b) > 0.1 for entropies in millionths of a bit: the outcomes
\* the doubles can have.  An entropy in millionths is within (-2, 1) of the
\* double times 10^6 (table entries to the nearest millionth, the quotient
\* truncated), so a difference within 3 millionths of 0.1 does not tell which
\* side of 0.1 the doubles fall; there, and above all where the entropies
\* differ by 0.1 exactly, the outcome rests on the last bits of Math.log2,
\* which the language leaves to the implementation.
EntropyMoved(a, b) ==
  LET Outcomes(d) ==
        IF d > 100003 THEN { TRUE }
        ELSE IF d < 99997 THEN { FALSE }
        ELSE BOOLEAN
  IN  Outcomes(IF a < b THEN b - a ELSE a - b)

\* Math.abs(a - b) > 0.05 in doubles, a and b the doubles p.num / p.den and
\* q.num / q.den.  Unless |p - q| is 1/20 exactly the quotients decide.  When
\* it is, with x the double of the larger and y of the smaller, x - y lies in
\* [2^-5, 2^-4) and is rounded to a multiple of 2^-57; the double 0.05 is
\* (2^57 + 8) / 20 such multiples, an even number, and x - y exceeds it by
\*   y.r 2^(5 + y.e) / y.den - x.r 2^(5 + x.e) / x.den - 2/5
\* multiples, so the difference rounds above 0.05 when that exceeds 1/2.
ZeroDensityMoved(p, q) ==
  LET exact == p.num * q.den - q.num * p.den
      Above(x, xden, y, yden, k) ==
        10 * y.r * 2 ^ (5 + y.e + k) * xden - 10 * x.r * 2 ^ (5 + x.e + k) * yden
          > 9 * xden * yden * 2 ^ k
      Tie(x, xden, y, yden) ==
        Above(x, xden, y, yden, IF 5 + y.e < 0 THEN -(5 + y.e) ELSE 0)
      Ordered(hi, lo) ==
        Tie(DoubleQuotient(hi.num, hi.den), hi.den,
            DoubleQuotient(lo.num, lo.den), lo.den)
  IN  IF 20 * exact = p.den * q.den THEN Ordered(p, q)
      ELSE IF -20 * exact = p.den * q.den THEN Ordered(q, p)
      ELSE 20 * exact > p.den * q.den \/ -20 * exact > p.den * q.den

\* The decision of lines 290-308, `stats` being this epoch's: the set of the
\* values shouldLog can have.
ShouldLog(e, stats, isCensusEpoch) ==
  IF isCensusEpoch THEN { TRUE }
  ELSE IF e.lastHistoryStats # NoStats
  THEN { moved \/ ZeroDensityMoved(stats.zeroDensity,
                                   e.lastHistoryStats[1].zeroDensity) :
           moved \in EntropyMoved(stats.entropy,
                                  e.lastHistoryStats[1].entropy) }
  ELSE { TRUE }

\* Mutant of PushSnapshot: the snapshot overwrites the newest entry.
PushSnapshotOverLast(e, snapshot) ==
  [e EXCEPT !.history = [e.history EXCEPT ![Len(e.history)] = snapshot],
            !.lastHistoryStats = << snapshot >>]

\* Mutant of PushSnapshot: the history keeps the newest snapshot only.
PushSnapshotReplacing(e, snapshot) ==
  [e EXCEPT !.history = << snapshot >>,
            !.lastHistoryStats = << snapshot >>]

\* The push of lines 311-313.
PushSnapshot(e, snapshot) ==
  [e EXCEPT !.history = Append(e.history, snapshot),
            !.lastHistoryStats = << snapshot >>]

\* Mutant of CompleteEpoch: mutate() takes its draws from a generator of the
\* platform that no seed sets (Math.random), and leaves the engine's own
\* generator alone: the epoch can end with any of the grids such a
\* generator can give.
CompleteEpochMutatingUnseeded(e0) ==
  LET Counters(e) ==
        [e EXCEPT !.epochInteractions = 0,
                  !.epochTotalComplexity = 0,
                  !.epochTotalCopies = 0,
                  !.epochTotalEffectiveCopies = 0]
      Log(e, shouldLog) ==
        Counters(IF shouldLog THEN PushSnapshot(e, e.stats) ELSE e)
      Decide(e, stats, isCensusEpoch) ==
        { Log([e EXCEPT !.stats = stats], shouldLog) :
            shouldLog \in ShouldLog(e, stats, isCensusEpoch) }
      Measured(e, epoch, metrics) ==
        LET isCensusEpoch == epoch % CENSUS_INTERVAL = 0
        IN  Decide(e,
              [epoch |-> epoch,
               avgComplexity |-> Quot(e.epochTotalComplexity, e.epochSize),
               replicationRate |-> Quot(e.epochTotalCopies, e.epochSize),
               effectiveReplication |->
                  Quot(e.epochTotalEffectiveCopies, e.epochSize),
               entropy |-> metrics.entropy,
               zeroDensity |-> metrics.zeroDensity,
               census |-> IF isCensusEpoch
                          THEN performCensus(e.data, e.width, e.height,
                                             e.config.tapeSize)
                          ELSE e.stats.census,
               lastCensusEpoch |-> IF isCensusEpoch THEN epoch
                                   ELSE e.stats.lastCensusEpoch],
              isCensusEpoch)
      Mutated(e) == Measured(e, e.stats.epoch + 1, calculateGridMetrics(e.data))
      Unseeded(e, state) ==
        [Mutate([e EXCEPT !.rng = state]) EXCEPT !.rng = e.rng]
  IN  UNION { Mutated(Unseeded(e0, PRNGNew(seed))) : seed \in { 1, 2 } }

\* Mutant of CompleteEpoch: the statistics take a draw of the generator.
CompleteEpochSamplingByDraw(e0) ==
  LET Counters(e) ==
        [e EXCEPT !.epochInteractions = 0,
                  !.epochTotalComplexity = 0,
                  !.epochTotalCopies = 0,
                  !.epochTotalEffectiveCopies = 0]
      Log(e, shouldLog) ==
        Counters(IF shouldLog THEN PushSnapshot(e, e.stats) ELSE e)
      Decide(e, stats, isCensusEpoch) ==
        { Log([e EXCEPT !.stats = stats], shouldLog) :
            shouldLog \in ShouldLog(e, stats, isCensusEpoch) }
      Measured(e, epoch, metrics) ==
        LET isCensusEpoch == epoch % CENSUS_INTERVAL = 0
        IN  Decide(e,
              [epoch |-> epoch,
               avgComplexity |-> Quot(e.epochTotalComplexity, e.epochSize),
               replicationRate |-> Quot(e.epochTotalCopies, e.epochSize),
               effectiveReplication |->
                  Quot(e.epochTotalEffectiveCopies, e.epochSize),
               entropy |-> metrics.entropy,
               zeroDensity |-> metrics.zeroDensity,
               census |-> IF isCensusEpoch
                          THEN performCensus(e.data, e.width, e.height,
                                             e.config.tapeSize)
                          ELSE e.stats.census,
               lastCensusEpoch |-> IF isCensusEpoch THEN epoch
                                   ELSE e.stats.lastCensusEpoch],
              isCensusEpoch)
      Sampled(e) == Measured(e, e.stats.epoch + 1, calculateGridMetrics(e.data))
      Mutated(e) == Sampled([e EXCEPT !.rng = PRNGAdvance(e.rng)])
  IN  Mutated(Mutate(e0))

\* Mutant of CompleteEpoch: an epoch without census clears the census.
CompleteEpochClearingCensus(e0) ==
  LET Counters(e) ==
        [e EXCEPT !.epochInteractions = 0,
                  !.epochTotalComplexity = 0,
                  !.epochTotalCopies = 0,
                  !.epochTotalEffectiveCopies = 0]
      Log(e, shouldLog) ==
        Counters(IF shouldLog THEN PushSnapshot(e, e.stats) ELSE e)
      Decide(e, stats, isCensusEpoch) ==
        { Log([e EXCEPT !.stats = stats], shouldLog) :
            shouldLog \in ShouldLog(e, stats, isCensusEpoch) }
      Measured(e, epoch, metrics) ==
        LET isCensusEpoch == epoch % CENSUS_INTERVAL = 0
        IN  Decide(e,
              [epoch |-> epoch,
               avgComplexity |-> Quot(e.epochTotalComplexity, e.epochSize),
               replicationRate |-> Quot(e.epochTotalCopies, e.epochSize),
               effectiveReplication |->
                  Quot(e.epochTotalEffectiveCopies, e.epochSize),
               entropy |-> metrics.entropy,
               zeroDensity |-> metrics.zeroDensity,
               census |-> IF isCensusEpoch
                          THEN performCensus(e.data, e.width, e.height,
                                             e.config.tapeSize)
                          ELSE [speciesCount |-> 0, topSpecies |-> << >>],
               lastCensusEpoch |-> IF isCensusEpoch THEN epoch
                                   ELSE e.stats.lastCensusEpoch],
              isCensusEpoch)
      Mutated(e) == Measured(e, e.stats.epoch + 1, calculateGridMetrics(e.data))
  IN  Mutated(Mutate(e0))

\* completeEpoch(): the set of the engines it can leave, one for each value
\* of shouldLog.
CompleteEpoch(e0) ==
  LET Counters(e) ==
        [e EXCEPT !.epochInteractions = 0,
                  !.epochTotalComplexity = 0,
                  !.epochTotalCopies = 0,
                  !.epochTotalEffectiveCopies = 0]
      Log(e, shouldLog) ==
        Counters(IF shouldLog THEN PushSnapshot(e, e.stats) ELSE e)
      Decide(e, stats, isCensusEpoch) ==
        { Log([e EXCEPT !.stats = stats], shouldLog) :
            shouldLog \in ShouldLog(e, stats, isCensusEpoch) }
      Measured(e, epoch, metrics) ==
        LET isCensusEpoch == epoch % CENSUS_INTERVAL = 0
        IN  Decide(e,
              [epoch |-> epoch,
               avgComplexity |-> Quot(e.epochTotalComplexity, e.epochSize),
               replicationRate |-> Quot(e.epochTotalCopies, e.epochSize),
               effectiveReplication |->
                  Quot(e.epochTotalEffectiveCopies, e.epochSize),
               entropy |-> metrics.entropy,
               zeroDensity |-> metrics.zeroDensity,
               census |-> IF isCensusEpoch
                          THEN performCensus(e.data, e.width, e.height,
                                             e.config.tapeSize)
                          ELSE e.stats.census,
               lastCensusEpoch |-> IF isCensusEpoch THEN epoch
                                   ELSE e.stats.lastCensusEpoch],
              isCensusEpoch)
      Mutated(e) == Measured(e, e.stats.epoch + 1, calculateGridMetrics(e.data))
  IN  Mutated(Mutate(e0))

\* interact(), step 5 (lines 236-239): for each i, A's byte then B's byte.
WriteBack(e, idxA, idxB) ==
  LET tapeSize == e.config.tapeSize
      tape == e.interactionBuffer
  IN  [e EXCEPT !.data =
         [j \in DOMAIN e.data |->
            IF j >= idxB /\ j < idxB + tapeSize THEN tape[tapeSize + j - idxB]
            ELSE IF j >= idxA /\ j < idxA + tapeSize THEN tape[j - idxA]
            ELSE e.data[j]]]

\* interact() from the pick of B on, as one function: the set of the engines
\* it can leave.
RECURSIVE InteractFromB(_, _, _)
InteractFromB(e, x, y) ==
  LET Finish(ran, idxA, idxB) ==
        { WriteBack(closed, idxA, idxB) :
            closed \in IF EpochDue(ran) THEN CompleteEpoch(ran) ELSE { ran } }
      Run(picked, idxA, idxB) == Finish(RunTape(picked, idxA, idxB), idxA, idxB)
      From(b) ==
        IF b.again THEN InteractFromB(b.e, x, y)
        ELSE IF b.abort THEN { b.e }
        ELSE Run(b.e, CellIndex(e, x, y), CellIndex(e, b.nx, b.ny))
  IN  From(PickB(e, x, y))

\* interact()
Interact(e) ==
  LET From(a) == InteractFromB(a.e, a.x, a.y)
  IN  From(PickA(e))

\* step(interactions) as one function: the set of the engines it can leave.
RECURSIVE Step(_, _)
Step(e, interactions) ==
  IF interactions = 0 THEN { e }
  ELSE UNION { Step(next, interactions - 1) : next \in Interact(e) }

\* ------------------------------------------------------------------------
\* Configurations offered to the constructor and to updateConfig
\* ------------------------------------------------------------------------
Config(w, h, t, rate, limit, topology, seedingMode, seed) ==
  [gridWidth |-> w, gridHeight |-> h, tapeSize |-> t, mutationRate |-> rate,
   instructionLimit |-> limit, topology |-> topology,
   seedingMode |-> seedingMode, seed |-> seed]

Configs ==
  { Config(2, 2, 4, Quot(1, 4), 8, "global", "balanced", 42),
    Config(2, 2, 4, Quot(1, 4), 8, "spatial", "balanced", 42),
    Config(2, 2, 4, Quot(0, 1), 4, "global", "random", 42),
    Config(2, 2, 4, Quot(1, 4), 8, "global", "balanced", 7),
    Config(1, 1, 16, Quot(1, 8), 8, "spatial", "balanced", 42),
    Config(1, 1, 16, Quot(1, 8), 8, "global", "balanced", 42),
    Config(2, 1, 2, Quot(1, 2), 6, "global", "balanced", 7),
    Config(2, 1, 2, Quot(1, 2), 6, "global", "balanced", 5),
    Config(3, 9, 8, Quot(0, 1), 8, "global", "balanced", 40),
    Config(2, 1, 2, Quot(0, 1), 6, "spatial", "random", 7),
    Config(2, 2, 3, Quot(1, 4), 8, "spatial", "balanced", 42),
    Config(2, 2, 4, Quot(2, 1), 8, "spatial", "balanced", 42),
    Config(2, 2, 4, Quot(-1, 4), 8, "global", "balanced", 42) }

\* The configurations offered to updateConfig.
NewConfigs ==
  { Config(2, 2, 4, Quot(1, 4), 8, "spatial", "balanced", 42),
    Config(2, 2, 4, Quot(1, 4), 8, "global", "balanced", 7),
    Config(2, 1, 2, Quot(1, 2), 6, "global", "balanced", 7),
    Config(2, 2, 3, Quot(1, 4), 8, "spatial", "balanced", 42) }

\* ------------------------------------------------------------------------
\* State
\* ------------------------------------------------------------------------
VARIABLES
  sim,        \* the engine
  pc,         \* where the caller is: "idle", or inside step() at
              \* "pickA", "pickB", "execute", "completeEpoch", "writeBack"
  remaining,  \* iterations of the loop of step() still to run
  pick,       \* the locals x, y, nx, ny of the running interact(), and
              \* the passes made through its resampling loop
  act,        \* the step taken last
  twin,       \* a second engine, constructed on its own with sim's
              \* configuration and stepped on its own by calls of step(1),
              \* one for each interact() of sim since sim's last reset; an
              \* outcome that an engine does not take from its configuration
              \* (a set of several outcomes in the model) is chosen for each
              \* engine apart
  pristine,   \* sim was constructed with its configuration and has had
              \* calls of step() and reset() only
  total,      \* calls of interact() since construction or the last reset()
  updated,    \* calls of updateConfig since construction
  called,     \* calls of mutate() and completeEpoch() made by the caller
              \* itself, outside step(), since construction
  run         \* the call that a specification of a single method follows:
              \* of execute, pass by pass, its locals and how many passes of
              \* the main loop it made, how many jumped, and what the execute
              \* of src/services/bffSimulation.ts returns; of getCellAt, its
              \* arguments and result; of performCensus, the grid and result;
              \* of step from a reset, the picks that aborted

vars ==
  << sim, pc, remaining, pick, act, twin, pristine, total, updated, called,
     run >>

\* Bounds of the model: the largest n of step(n); the calls of interact()
\* made by an engine that was ever reconfigured or had mutate() or
\* completeEpoch() called on it from outside, and by one that never was; the
\* calls of updateConfig; the calls of mutate() and completeEpoch() from
\* outside; the passes of the global resampling loop followed within one
\* interact().
MaxStep == 2
MaxRun == 3
MaxLongRun == 102
MaxUpdates == 1
MaxCalls == 1
MaxResample == 12

NoPick == [x |-> 0, y |-> 0, nx |-> 0, ny |-> 0, tries |-> 0]
NoTwin == << >>
NoRun == << >>

Init ==
  /\ \E c \in Configs : sim = Construct(c) /\ twin = Construct(c)
  /\ pc = "idle"
  /\ remaining = 0
  /\ pick = NoPick
  /\ act = "new"
  /\ pristine = TRUE
  /\ total = 0
  /\ updated = 0
  /\ called = 0
  /\ run = NoRun

\* reset()
ResetCall ==
  /\ pc = "idle"
  /\ sim' = Reset(sim)
  /\ twin' = IF pristine THEN Construct(sim.config) ELSE NoTwin
  /\ act' = "reset"
  /\ total' = 0
  /\ UNCHANGED << pc, remaining, pick, pristine, updated, called, run >>

\* updateConfig(newConfig)
UpdateConfigCall(newConfig) ==
  /\ pc = "idle"
  /\ updated < MaxUpdates
  /\ called = 0
  /\ total <= MaxRun
  /\ sim' = UpdateConfig(sim, newConfig)
  /\ twin' = NoTwin
  /\ pristine' = FALSE
  /\ updated' = updated + 1
  /\ act' = "updateConfig"
  /\ UNCHANGED << pc, remaining, pick, total, called, run >>

\* The configurations of the engines on which mutate() and completeEpoch()
\* are called from outside step(): both topologies, and one without
\* mutation.  Such calls are followed on engines that were never
\* reconfigured, and an engine that had one is not reconfigured afterwards.
CallConfigs ==
  { Config(2, 2, 4, Quot(1, 4), 8, "global", "balanced", 42),
    Config(2, 2, 4, Quot(1, 4), 8, "spatial", "balanced", 42),
    Config(2, 2, 4, Quot(0, 1), 4, "global", "random", 42) }

\* mutate(), called by the caller itself: the method is public (line 242).
MutateCall ==
  /\ pc = "idle"
  /\ called < MaxCalls
  /\ updated = 0
  /\ sim.config \in CallConfigs
  /\ total <= MaxRun
  /\ sim' = Mutate(sim)
  /\ twin' = NoTwin
  /\ pristine' = FALSE
  /\ called' = called + 1
  /\ act' = "mutateCall"
  /\ UNCHANGED << pc, remaining, pick, total, updated, run >>

\* completeEpoch(), called by the caller itself: the method is public
\* (line 259) and closes an epoch whatever the tally of interactions.
CompleteEpochCall ==
  /\ pc = "idle"
  /\ called < MaxCalls
  /\ updated = 0
  /\ sim.config \in CallConfigs
  /\ total <= MaxRun
  /\ sim' \in CompleteEpoch(sim)
  /\ twin' = NoTwin
  /\ pristine' = FALSE
  /\ called' = called + 1
  /\ act' = "completeEpochCall"
  /\ UNCHANGED << pc, remaining, pick, total, updated, run >>

\* step(interactions): entry, and the loop test with i = 0
StepCall(interactions) ==
  /\ pc = "idle"
  /\ total + interactions
       <= (IF updated = 0 /\ called = 0 THEN MaxLongRun ELSE MaxRun)
  /\ remaining' = interactions
  /\ pc' = IF interactions > 0 THEN "pickA" ELSE "idle"
  /\ act' = "step"
  /\ UNCHANGED << sim, pick, twin, pristine, total, updated, called, run >>

\* The end of one interact(): i++ and the loop test of step().
NextIteration ==
  /\ remaining' = remaining - 1
  /\ pc' = IF remaining > 1 THEN "pickA" ELSE "idle"
  /\ pick' = NoPick
  /\ total' = total + 1
  /\ twin' \in IF pristine THEN Step(twin, 1) ELSE { NoTwin }

PickAStep ==
  /\ pc = "pickA"
  /\ \E a \in { PickA(sim) } :
       /\ sim' = a.e
       /\ pick' = [NoPick EXCEPT !.x = a.x, !.y = a.y]
  /\ pc' = "pickB"
  /\ act' = "pickA"
  /\ UNCHANGED << remaining, twin, pristine, total, updated, called, run >>

PickBStep ==
  /\ pc = "pickB"
  /\ \E b \in { PickB(sim, pick.x, pick.y) } :
       /\ sim' = b.e
       /\ \/ /\ b.again
             /\ pick.tries < MaxResample
             /\ pick' = [pick EXCEPT !.tries = pick.tries + 1]
             /\ pc' = "pickB"
             /\ UNCHANGED << remaining, twin, total >>
          \/ /\ b.abort
             /\ NextIteration
          \/ /\ ~b.again /\ ~b.abort
             /\ pick' = [pick EXCEPT !.nx = b.nx, !.ny = b.ny]
             /\ pc' = "execute"
             /\ UNCHANGED << remaining, twin, total >>
  /\ act' = "pickB"
  /\ UNCHANGED << pristine, updated, called, run >>

ExecuteStep ==
  /\ pc = "execute"
  /\ sim' = RunTape(sim, CellIndex(sim, pick.x, pick.y),
                    CellIndex(sim, pick.nx, pick.ny))
  /\ pc' = IF EpochDue(sim') THEN "completeEpoch" ELSE "writeBack"
  /\ act' = "execute"
  /\ UNCHANGED << remaining, pick, twin, pristine, total, updated, called, run >>

CompleteEpochStep ==
  /\ pc = "completeEpoch"
  /\ sim' \in CompleteEpoch(sim)
  /\ pc' = "writeBack"
  /\ act' = "completeEpoch"
  /\ UNCHANGED << remaining, pick, twin, pristine, total, updated, called, run >>

WriteBackStep ==
  /\ pc = "writeBack"
  /\ sim' = WriteBack(sim, CellIndex(sim, pick.x, pick.y),
                      CellIndex(sim, pick.nx, pick.ny))
  /\ NextIteration
  /\ act' = "writeBack"
  /\ UNCHANGED << pristine, updated, called, run >>

\* The steps inside a running step().
Running ==
  \/ PickAStep
  \/ PickBStep
  \/ ExecuteStep
  \/ CompleteEpochStep
  \/ WriteBackStep

Next ==
  \/ ResetCall
  \/ \E c \in NewConfigs : UpdateConfigCall(c)
  \/ MutateCall
  \/ CompleteEpochCall
  \/ \E n \in 0 .. MaxStep : StepCall(n)
  \/ Running

Spec == Init /\ [][Next]_vars

\* ------------------------------------------------------------------------
\* execute(tape) on its own, one pass of the main loop per step, for every
\* tape over VMBytes (control flow), every tape over CopyBytes (copies and
\* head moves), and for the tape of the arithmetic scenario
\* ------------------------------------------------------------------------
VMTapeSize == 2
MaxLimit == 6
VMBytes == { 0, CMD_JZ, CMD_JNZ, CMD_DEC }
CopyBytes == { CMD_COPY_0_TO_1, CMD_COPY_1_TO_0, CMD_H1_INC, CMD_RIGHT }

\* The arithmetic scenario: three '+' and thirteen zeros as the tape of two
\* cells of 8 bytes, run with the instruction limit 32.
Scenario ==
  [tape |-> [i \in 0 .. 15 |-> IF i < 3 THEN CMD_INC ELSE 0],
   T |-> 8, limit |-> 32]

\* The calls of execute that are followed.
VMInputs ==
  { [tape |-> tape, T |-> VMTapeSize, limit |-> limit] :
      tape \in [0 .. TapeLen(VMTapeSize) - 1 -> VMBytes]
                 \cup [0 .. TapeLen(VMTapeSize) - 1 -> CopyBytes],
      limit \in 0 .. MaxLimit }
  \cup { Scenario }

InitVM ==
  /\ \E input \in VMInputs :
       run = [vm |-> VMStart(input.tape, input.T), given |-> input.tape,
              T |-> input.T, limit |-> input.limit, passes |-> 0, jumped |-> 0,
              scanning |-> NoRun]
  /\ sim = << >>
  /\ pc = "execute"
  /\ remaining = 0
  /\ pick = NoPick
  /\ act = "execute"
  /\ twin = NoTwin
  /\ pristine = FALSE
  /\ total = 0
  /\ updated = 0
  /\ called = 0

\* One pass of the main loop.
VMPass ==
  /\ pc = "execute"
  /\ VMRunning(run.vm, run.limit)
  /\ \E next \in { VMCycle(run.vm, run.T) } :
       run' = [run EXCEPT
                 !.vm = next,
                 !.passes = run.passes + 1,
                 !.jumped = IF ~next.returned /\ next.ip # run.vm.ip + 1
                            THEN run.jumped + 1 ELSE run.jumped]
  /\ act' = "pass"
  /\ UNCHANGED << sim, pc, remaining, pick, twin, pristine, total, updated, called >>

\* The main loop is left: by its test, or by the return inside it.  The
\* execute of src/services/bffSimulation.ts is then run on the same tape
\* with the same limit, and its final locals are kept beside.
VMReturn ==
  /\ pc = "execute"
  /\ ~VMRunning(run.vm, run.limit)
  /\ pc' = "returned"
  /\ act' = "return"
  /\ run' = [run EXCEPT
               !.scanning = ExecuteScanning(run.given, run.T, run.limit)]
  /\ UNCHANGED << sim, remaining, pick, twin, pristine, total, updated, called >>

NextVM ==
  \/ VMPass
  \/ VMReturn

SpecVM == InitVM /\ [][NextVM]_vars

\* ------------------------------------------------------------------------
\* getCellAt(x, y) on its own, for coordinates inside and outside the grid
\* ------------------------------------------------------------------------
\* a % n of JavaScript: the remainder has the sign of the dividend.
JSRemainder(a, n) == IF a >= 0 THEN a % n ELSE -((-a) % n)

\* TypedArray.prototype.slice(start, end): a negative index counts from the
\* end, both are clamped to the array, and the copy is empty if the end does
\* not lie behind the start.  The copy is a sequence.
Slice(data, start, end) ==
  LET len == Cardinality(DOMAIN data)
      Clamp(i) == IF i < 0 THEN (IF len + i < 0 THEN 0 ELSE len + i)
                  ELSE (IF i > len THEN len ELSE i)
      Copy(k, final) ==
        [i \in 1 .. (IF final > k THEN final - k ELSE 0) |-> data[k + i - 1]]
  IN  Copy(Clamp(start), Clamp(end))

\* getCellAt(x, y)
getCellAt(e, x, y) ==
  LET At(idx) == Slice(e.data, idx, idx + e.config.tapeSize)
      Index(sx, sy) == At((sy * e.width + sx) * e.config.tapeSize)
  IN  Index(JSRemainder(x + e.width, e.width),
            JSRemainder(y + e.height, e.height))

\* The coordinates asked for lie in -MaxCoordinate .. MaxCoordinate.
MaxCoordinate == 5

CellConfigs ==
  { Config(2, 2, 4, Quot(1, 4), 8, "global", "balanced", 42),
    Config(2, 1, 2, Quot(1, 2), 6, "global", "balanced", 7),
    Config(1, 1, 16, Quot(1, 8), 8, "spatial", "balanced", 42) }

InitCell ==
  /\ \E c \in CellConfigs : sim = Construct(c)
  /\ pc = "idle"
  /\ remaining = 0
  /\ pick = NoPick
  /\ act = "new"
  /\ twin = NoTwin
  /\ pristine = TRUE
  /\ total = 0
  /\ updated = 0
  /\ called = 0
  /\ run = NoRun

GetCellAtCall(x, y) ==
  /\ pc = "idle"
  /\ run' = [x |-> x, y |-> y, cell |-> getCellAt(sim, x, y)]
  /\ act' = "getCellAt"
  /\ UNCHANGED << sim, pc, remaining, pick, twin, pristine, total, updated, called >>

NextCell ==
  \E x \in -MaxCoordinate .. MaxCoordinate, y \in -MaxCoordinate .. MaxCoordinate :
     GetCellAtCall(x, y)

SpecCell == InitCell /\ [][NextCell]_vars

\* ------------------------------------------------------------------------
\* performCensus() on its own, for grids whose sampled cells hold up to
\* MaxSamples species
\* ------------------------------------------------------------------------
\* The cells that the census samples.
MaxSamples == 7

\* Grids of one row of 2-byte cells that reach just to the last sampled
\* cell.  The k-th sampled cell (from 0) holds one of the genomes [b, 0] with
\* b <= k, which gives every partition of the sampled cells into species;
\* the cells in between hold zeros.
CensusGrids ==
  LET width == SampleStride * (MaxSamples - 1) + 1
  IN  { [data |-> [i \in 0 .. 2 * width - 1 |->
                     IF i % (2 * SampleStride) = 0
                     THEN bytes[i \div (2 * SampleStride)] ELSE 0],
         width |-> width, height |-> 1, tapeSize |-> 2,
         census |-> << >>] :
        bytes \in { f \in [0 .. MaxSamples - 1 -> 0 .. MaxSamples - 1] :
                      \A k \in 0 .. MaxSamples - 1 : f[k] <= k } }

InitCensus ==
  /\ run \in CensusGrids
  /\ sim = << >>
  /\ pc = "idle"
  /\ remaining = 0
  /\ pick = NoPick
  /\ act = "new"
  /\ twin = NoTwin
  /\ pristine = FALSE
  /\ total = 0
  /\ updated = 0
  /\ called = 0

PerformCensusCall ==
  /\ pc = "idle"
  /\ run' = [run EXCEPT !.census =
               performCensus(run.data, run.width, run.height, run.tapeSize)]
  /\ pc' = "done"
  /\ act' = "performCensus"
  /\ UNCHANGED << sim, remaining, pick, twin, pristine, total, updated, called >>

NextCensus == PerformCensusCall

SpecCensus == InitCensus /\ [][NextCensus]_vars

\* ------------------------------------------------------------------------
\* step(n) from a reset(), on engines as constructed and on engines that
\* were reconfigured before the reset; the picks that aborted are counted
\* ------------------------------------------------------------------------
InitStep ==
  /\ \E c \in Configs, d \in NewConfigs :
       \E again \in BOOLEAN :
         /\ sim = Reset(IF again THEN UpdateConfig(Construct(c), d)
                        ELSE Construct(c))
         /\ updated = IF again THEN 1 ELSE 0
         /\ called = 0
  /\ pc = "idle"
  /\ remaining = 0
  /\ pick = NoPick
  /\ act = "reset"
  /\ twin = NoTwin
  /\ pristine = FALSE
  /\ total = 0
  /\ run = [aborted |-> 0]

\* PickBStep, with the return of line 205 counted.
PickBCounted ==
  /\ pc = "pickB"
  /\ \E b \in { PickB(sim, pick.x, pick.y) } :
       /\ sim' = b.e
       /\ \/ /\ b.again
             /\ pick.tries < MaxResample
             /\ pick' = [pick EXCEPT !.tries = pick.tries + 1]
             /\ pc' = "pickB"
             /\ UNCHANGED << remaining, twin, total, run >>
          \/ /\ b.abort
             /\ NextIteration
             /\ run' = [run EXCEPT !.aborted = run.aborted + 1]
          \/ /\ ~b.again /\ ~b.abort
             /\ pick' = [pick EXCEPT !.nx = b.nx, !.ny = b.ny]
             /\ pc' = "execute"
             /\ UNCHANGED << remaining, twin, total, run >>
  /\ act' = "pickB"
  /\ UNCHANGED << pristine, updated, called >>

NextStep ==
  \/ \E n \in 0 .. MaxStep : StepCall(n)
  \/ PickAStep
  \/ PickBCounted
  \/ ExecuteStep
  \/ CompleteEpochStep
  \/ WriteBackStep

SpecStep == InitStep /\ [][NextStep]_vars

\* ------------------------------------------------------------------------
\* Properties
\* ------------------------------------------------------------------------
\* Two configurations differ in W, H, T or seed.
Differs(c, d) ==
  \/ c.gridWidth # d.gridWidth
  \/ c.gridHeight # d.gridHeight
  \/ c.tapeSize # d.tapeSize
  \/ c.seed # d.seed

\* A configuration the specification accepts.
ValidConfig(c) ==
  /\ c.tapeSize \in { 1, 2, 4, 8, 16, 32, 64, 128, 256 }
  /\ c.gridWidth * c.gridHeight * c.tapeSize # 0
  /\ 0 <= c.mutationRate.num
  /\ c.mutationRate.num <= c.mutationRate.den

\* The step taken resets the engine: reset(), or an updateConfig to a
\* configuration that differs in W, H, T or seed.
Resetting ==
  \/ act' = "reset"
  \/ act' = "updateConfig" /\ Differs(sim.config, sim'.config)

\* The step taken is a completeEpoch(): the one interact() makes when the
\* tally is full, or one the caller makes itself.
ClosingEpoch == act' \in { "completeEpoch", "completeEpochCall" }

EpochEveryGridSize ==
  /\ pc = "completeEpoch" => sim.epochInteractions = sim.width * sim.height
  /\ (pc = "writeBack" /\ act = "execute") =>
        sim.epochInteractions < sim.width * sim.height
  /\ act = "completeEpoch" =>
        /\ sim.stats.avgComplexity.den = sim.width * sim.height
        /\ sim.stats.replicationRate.den = sim.width * sim.height
        /\ sim.stats.effectiveReplication.den = sim.width * sim.height

\* C3. The constructor and updateConfig reject a configuration whose tape
\* size is no power of two, whose W * H * T is 0 or whose mutation rate lies
\* outside [0, 1], and a rejected call creates or changes no engine: so no
\* engine holds such a configuration.
InvalidConfigRejected == ValidConfig(sim.config)

\* C4. step(n) runs to completion: an interaction that is in the resampling
\* loop of the global topology leaves it, so the grid holds a cell other
\* than A for the loop to draw as B.
ResampleLoopEnds ==
  (pc = "pickB" /\ sim.config.topology = "global") =>
     \E nx \in 0 .. sim.width - 1, ny \in 0 .. sim.height - 1 :
        ~(nx = pick.x /\ ny = pick.y)

\* C5. A call of execute makes at most L passes through its main loop: every
\* pass that does not return adds one to the cycle counter, whether it jumped
\* or not, the counter never exceeds L, and the loop followed pass by pass
\* ends with the locals that Execute gives.
InstructionBudget ==
  run # NoRun =>
    /\ run.passes <= run.limit
    /\ run.vm.cycles <= run.limit
    /\ run.passes = run.vm.cycles + (IF run.vm.returned THEN 1 ELSE 0)
    /\ pc = "returned" => run.vm = Execute(run.given, run.T, run.limit)

\* C5's case: a program that jumped and was stopped by the limit.
InstructionBudgetSeen ==
  /\ run # NoRun
  /\ pc = "returned"
  /\ run.limit = MaxLimit
  /\ run.vm.cycles = run.limit
  /\ run.jumped >= 2

\* C6. updateConfig(c') resets the engine (grid filled anew from the seed,
\* epoch 0, history the baseline alone) if and only if c' differs from the
\* configuration in W, H, T or seed; otherwise nothing but the configuration
\* changes.
UpdateResetsIff ==
  [][act' = "updateConfig" =>
       IF Differs(sim.config, sim'.config)
       THEN /\ sim'.data =
                 FillBytes(PRNGNew(sim'.config.seed),
                           sim'.config.gridWidth * sim'.config.gridHeight
                             * sim'.config.tapeSize,
                           sim'.config.seedingMode).data
            /\ sim'.stats.epoch = 0
            /\ sim'.history = << sim'.stats >>
       ELSE sim' = [sim EXCEPT !.config = sim'.config]]_vars

\* C6's case: an update that does not reset, of an engine that has completed
\* an epoch.
UpdateResetsIffSeen ==
  /\ act = "updateConfig"
  /\ total >= 2
  /\ sim.stats.epoch >= 1
  /\ sim.epochSize = sim.width * sim.height

\* C7. The grid buffer holds W * H * T bytes of the current configuration,
\* the interaction buffer and the jump table 2 * T entries each.
BufferLengths ==
  sim # << >> =>
    /\ Cardinality(DOMAIN sim.data) =
         sim.config.gridWidth * sim.config.gridHeight * sim.config.tapeSize
    /\ Cardinality(DOMAIN sim.interactionBuffer) = 2 * sim.config.tapeSize
    /\ Cardinality(DOMAIN sim.jumpTable) = 2 * sim.config.tapeSize

\* C7's case: an engine stepped after an update that changed W * H.
BufferLengthsSeen ==
  /\ sim # << >>
  /\ updated >= 1
  /\ act = "writeBack"
  /\ sim.epochSize # sim.width * sim.height

\* C8. stats.epoch stays or grows by steps and by updates that do not reset,
\* completeEpoch adds exactly 1, and a step that lowers it is a reset or a
\* resetting update and leaves 0.
EpochMonotone ==
  [][/\ ClosingEpoch => sim'.stats.epoch = sim.stats.epoch + 1
     /\ act' \in { "step", "pickA", "pickB", "execute", "writeBack",
                   "mutateCall" } =>
          sim'.stats.epoch = sim.stats.epoch
     /\ (act' = "updateConfig" /\ ~Differs(sim.config, sim'.config)) =>
          sim'.stats.epoch = sim.stats.epoch
     /\ sim'.stats.epoch < sim.stats.epoch =>
          Resetting /\ sim'.stats.epoch = 0]_vars

\* C8's case: the third epoch completes.
EpochMonotoneSeen == act = "completeEpoch" /\ sim.stats.epoch >= 3

\* C9. The history is never empty and its first entry is the snapshot with
\* epoch 0 that the last reset (or the construction) took.
BaselineKept ==
  /\ sim.history = << sim.stats >>
  /\ [](Len(sim.history) >= 1 /\ sim.history[1].epoch = 0)
  /\ [][IF Resetting
        THEN sim'.history = << sim'.stats >> /\ sim'.stats.epoch = 0
        ELSE sim'.history[1] = sim.history[1]]_vars

\* C9's case: snapshots were pushed after the baseline.
BaselineKeptSeen ==
  /\ pc = "idle"
  /\ sim # << >>
  /\ Len(sim.history) >= 3
  /\ sim.stats.epoch >= 3

\* C10. A completed epoch appends exactly its own snapshot to the history if
\* it is a census epoch (epoch mod 50 = 0), or if its entropy lies more than
\* 0.1 or its zero density more than 0.05 from that of the last snapshot in
\* the history; otherwise it appends nothing.  The zero densities are
\* quotients of counts and their distance is compared with 1/20 exactly.
\* The entropies are sums of logarithms, which the model holds to within 3
\* millionths of a bit: a distance above 0.100003 is more than 0.1, one below
\* 0.099997 is not, and between the two the epoch is held to neither side.
HistoryCompression ==
  [][ClosingEpoch =>
       LET s == sim'.stats
           last == sim.history[Len(sim.history)]
           dEntropy == IF s.entropy < last.entropy THEN last.entropy - s.entropy
                       ELSE s.entropy - last.entropy
           zero == s.zeroDensity.num * last.zeroDensity.den
                     - last.zeroDensity.num * s.zeroDensity.den
           dZero == 20 * (IF zero < 0 THEN -zero ELSE zero)
           one == s.zeroDensity.den * last.zeroDensity.den
       IN  IF s.epoch % 50 = 0 \/ dZero > one \/ dEntropy > 100003
           THEN sim'.history = Append(sim.history, s)
           ELSE IF dEntropy < 99997
           THEN sim'.history = sim.history
           ELSE sim'.history \in { sim.history, Append(sim.history, s) }]_vars

\* C11. Between resets the history is append-only: a step that does not
\* reset keeps every entry the history holds, fields and census alike, and
\* the epochs of successive entries are strictly increasing.
HistoryAppendOnly ==
  /\ [](\A i \in 1 .. Len(sim.history) - 1 :
          sim.history[i].epoch < sim.history[i + 1].epoch)
  /\ [][~Resetting =>
          /\ Len(sim'.history) >= Len(sim.history)
          /\ SubSeq(sim'.history, 1, Len(sim.history)) = sim.history]_vars

\* C11's case: the census epoch 50 was pushed with a census other than the
\* baseline's, onto a history of several entries.
HistoryAppendOnlySeen ==
  /\ act = "completeEpoch"
  /\ Len(sim.history) >= 4
  /\ sim.history[Len(sim.history)].epoch = 50
  /\ sim.history[Len(sim.history)].census # sim.history[1].census
  /\ sim.history[Len(sim.history) - 1].census = sim.history[1].census

\* C12. lastCensusEpoch is the largest multiple of 50 not above stats.epoch,
\* and stats.census is replaced only by a reset and by an epoch with
\* epoch mod 50 = 0, which installs the census of the grid as it then is; at
\* every other epoch, and in every other step, the census stays in place.
CensusEveryFifty ==
  /\ [](sim.stats.lastCensusEpoch = 50 * (sim.stats.epoch \div 50))
  /\ [][/\ (ClosingEpoch /\ sim'.stats.epoch % 50 = 0) =>
             sim'.stats.census =
               performCensus(sim'.data, sim'.width, sim'.height,
                             sim'.config.tapeSize)
        /\ (~Resetting /\ ~(ClosingEpoch /\ sim'.stats.epoch % 50 = 0)) =>
             sim'.stats.census = sim.stats.census]_vars

\* C12's case: the epoch after the census epoch 50, with the census of
\* epoch 50, which is not the baseline's, still in place.
CensusEveryFiftySeen ==
  /\ act = "completeEpoch"
  /\ sim.stats.epoch = 51
  /\ sim.stats.lastCensusEpoch = 50
  /\ sim.stats.census # sim.history[1].census

\* C13. reset() is idempotent: from every state in which the engine can be
\* called, a second reset() leaves the engine (grid, stats, history, epoch
\* accumulators, generator) as the first left it.
ResetIdempotent ==
  (pc = "idle" /\ sim # << >>) => Reset(Reset(sim)) = Reset(sim)

\* C13's case: an engine that a reset changes in grid, stats, history,
\* accumulators and generator.
ResetIdempotentSeen ==
  /\ pc = "idle"
  /\ sim # << >>
  /\ sim.stats.epoch >= 2
  /\ Len(sim.history) >= 2
  /\ sim.epochInteractions >= 1
  /\ sim.data # Reset(sim).data
  /\ sim.rng # Reset(sim).rng

\* C14. For all integers x and y, negative ones and ones beyond the grid
\* included, getCellAt(x, y) returns the T bytes of the cell at the
\* coordinates (x mod W, y mod H), the modulus being non-negative.
CellAtWraps ==
  act = "getCellAt" =>
    run.cell =
      [i \in 1 .. sim.config.tapeSize |->
         sim.data[((run.y % sim.height) * sim.width + (run.x % sim.width))
                    * sim.config.tapeSize + i - 1]]

\* C15. In the spatial topology an interaction whose draws give dx = dy = 0
\* returns with the grid, the epoch accumulators, the interaction tally,
\* stats and history as it found them: the pick of A advances the generator
\* by the draws of x and y, the aborted pick of B by those of dx and dy, and
\* neither changes anything else.
AbortChangesNothing ==
  [][/\ act' = "pickA" =>
          sim' = [sim EXCEPT !.rng = PRNGAdvanceBy(sim.rng, 2)]
     /\ (/\ act' = "pickB"
         /\ sim.config.topology = "spatial"
         /\ DrawAt(sim.rng, 1, 5) - 2 = 0
         /\ DrawAt(sim.rng, 2, 5) - 2 = 0) =>
          /\ sim' = [sim EXCEPT !.rng = PRNGAdvanceBy(sim.rng, 2)]
          /\ pc' \in { "idle", "pickA" }]_vars

\* C15's case: an interaction was aborted in an engine with interactions
\* tallied and an epoch completed.
AbortChangesNothingSeen ==
  /\ act = "pickB"
  /\ pc \in { "idle", "pickA" }
  /\ sim.config.topology = "spatial"
  /\ sim.epochInteractions >= 1
  /\ sim.stats.epoch >= 1

\* C16. In both topologies and on every grid, an interaction that runs the
\* VM runs it on two distinct cells: B is not the cell A, and the two halves
\* of the tape are written back to different bytes.
DistinctCells ==
  pc = "execute" =>
    /\ ~(pick.nx = pick.x /\ pick.ny = pick.y)
    /\ CellIndex(sim, pick.nx, pick.ny) # CellIndex(sim, pick.x, pick.y)

\* C17, as amended.  execute on the tape of the arithmetic scenario (T = 8,
\* limit 32, h0 = h1 = ip = 0) ends with tape[0] = 48, complexity = 6,
\* copies = 1 and neighborWrites = 0: the three '+' raise the byte under
\* head 0, which is the first '+' itself, to 46; the second lap finds '.'
\* (46) there, which copies, and two '+' more.
ScenarioArithmetic ==
  (/\ run # NoRun
   /\ pc = "returned"
   /\ run.given = Scenario.tape
   /\ run.T = Scenario.T
   /\ run.limit = Scenario.limit) =>
    /\ run.vm.tape[0] = 48
    /\ run.vm.complexity = 6
    /\ run.vm.copies = 1
    /\ run.vm.neighborWrites = 0

\* C17's case: the scenario has run for its 32 passes.
ScenarioArithmeticSeen ==
  /\ run # NoRun
  /\ pc = "returned"
  /\ run.given = Scenario.tape
  /\ run.limit = Scenario.limit
  /\ run.passes = 32

\* C17, as stated.  execute on the tape of the arithmetic scenario ends with
\* tape[0] = 3, complexity = 3, copies = 0 and neighborWrites = 0.
ScenarioAsStated ==
  (/\ run # NoRun
   /\ pc = "returned"
   /\ run.given = Scenario.tape
   /\ run.T = Scenario.T
   /\ run.limit = Scenario.limit) =>
    /\ run.vm.tape[0] = 3
    /\ run.vm.complexity = 3
    /\ run.vm.copies = 0
    /\ run.vm.neighborWrites = 0

\* C18. A census ranks at most 5 species, with the ranks 1..K in order; each
\* has a dominance between 0 and 1, its sampled count over the number of
\* sampled cells, and the sampled counts do not increase with the rank.
CensusRanks ==
  (run # NoRun /\ act = "performCensus") =>
    LET top == run.census.topSpecies
    IN  /\ Len(top) <= 5
        /\ \A k \in 1 .. Len(top) :
             /\ top[k].rank = k
             /\ top[k].dominance.den = Len(StridedIndices(run.width * run.height))
             /\ 0 <= top[k].dominance.num
             /\ top[k].dominance.num <= top[k].dominance.den
        /\ \A k \in 1 .. Len(top) - 1 :
             top[k].dominance.num >= top[k + 1].dominance.num

\* C18's case: six species were sampled and five ranked, and the species
\* sampled twice, which is not the one sampled first, has rank 1.
CensusRanksSeen ==
  /\ run # NoRun
  /\ act = "performCensus"
  /\ run.census.speciesCount = 6
  /\ Len(run.census.topSpecies) = 5
  /\ run.census.topSpecies[1].dominance.num = 2
  /\ run.census.topSpecies[1].code # GenomeToString(<< run.data[0], run.data[1] >>)

\* C19. The state of the generator is one 32-bit word: after construction
\* and after every next(), 0 <= state < 2^32.
GeneratorStateIsWord ==
  sim # << >> =>
    /\ 0 <= sim.rng.lo /\ sim.rng.lo < Half
    /\ 0 <= sim.rng.hi /\ sim.rng.hi < Half

\* C20. The statistics passes take no draw from the generator and change no
\* byte of the grid: completeEpoch, which runs the grid metrics and (at a
\* census epoch) the census, leaves generator and grid as mutate() left
\* them, and a reset, which runs both, leaves them as the fill left them.
StatisticsLeavePhysics ==
  [][/\ ClosingEpoch =>
          /\ sim'.rng = Mutate(sim).rng
          /\ sim'.data = Mutate(sim).data
     /\ Resetting =>
          LET fill == FillBytes(PRNGNew(sim'.config.seed),
                                sim'.config.gridWidth * sim'.config.gridHeight
                                  * sim'.config.tapeSize,
                                sim'.config.seedingMode)
          IN  /\ sim'.rng = fill.rng
              /\ sim'.data = fill.data]_vars

\* C20's case: the census epoch 50 has completed, with metrics and a new
\* census taken, in an engine whose epochs mutate the grid.
StatisticsLeavePhysicsSeen ==
  /\ act = "completeEpoch"
  /\ sim.stats.epoch = 50
  /\ sim.stats.lastCensusEpoch = 50
  /\ sim.config.mutationRate.num > 0
  /\ sim.stats.census # sim.history[1].census

\* ------------------------------------------------------------------------
\* C21.  While step(n) runs, the generator is drawn from for mutation only
\* inside completeEpoch(): outside the picks of A and B no step of step(n)
\* moves the generator but completeEpoch.  completeEpoch runs right after
\* the VM run and the tallies of the interaction that fills the epoch,
\* before that interaction is written back, and its mutation pass acts on
\* the engine whose epoch counter is not incremented yet.
\* ------------------------------------------------------------------------
MutationAtEpochBoundary ==
  [][/\ (sim'.rng # sim.rng
           /\ act' \in { "step", "execute", "completeEpoch", "writeBack" })
          => act' = "completeEpoch"
     /\ act' = "completeEpoch" =>
          /\ act = "execute"
          /\ sim.epochInteractions >= sim.epochSize
          /\ pc' = "writeBack"
          /\ sim'.rng = Mutate(sim).rng
          /\ sim'.data = Mutate(sim).data
          /\ Mutate(sim).stats.epoch = sim.stats.epoch
          /\ sim'.stats.epoch = sim.stats.epoch + 1]_vars

\* A mutation pass that drew from the generator, while the interaction that
\* filled the epoch is not written back yet.
MutationAtEpochBoundarySeen ==
  /\ act = "completeEpoch"
  /\ pc = "writeBack"
  /\ sim.config.mutationRate.num > 0
  /\ sim.stats.epoch >= 2
  /\ sim.data # WriteBack(sim, CellIndex(sim, pick.x, pick.y),
                          CellIndex(sim, pick.nx, pick.ny)).data

\* C21 as stated: when completeEpoch draws its mutations, the last
\* interaction of the epoch is written back already.
MutationAfterLastWriteBack ==
  [][act' = "completeEpoch" =>
       sim.data = WriteBack(sim, CellIndex(sim, pick.x, pick.y),
                            CellIndex(sim, pick.nx, pick.ny)).data]_vars

\* ------------------------------------------------------------------------
\* C22.  The interaction whose tally reaches W*H closes the epoch before it
\* is written back: execute leaves the grid alone and hands over to
\* completeEpoch, which therefore mutates, measures and logs the grid with
\* the cells A and B as they were before the interaction, and the write-back
\* that follows stores the whole working buffer over the two cells.
\* ------------------------------------------------------------------------
EpochClosedBeforeWriteBack ==
  [][/\ (act' = "execute" /\ sim'.epochInteractions = sim'.width * sim'.height)
          => /\ pc' = "completeEpoch"
             /\ sim'.data = sim.data
     /\ act' = "completeEpoch"
          => /\ act = "execute"
             /\ sim' \in CompleteEpoch(sim)
             /\ pc' = "writeBack"
     /\ (act' = "writeBack" /\ act = "completeEpoch")
          => \A i \in 0 .. sim.config.tapeSize - 1 :
               /\ sim'.data[CellIndex(sim, pick.nx, pick.ny) + i]
                    = sim.interactionBuffer[sim.config.tapeSize + i]
               /\ CellIndex(sim, pick.nx, pick.ny) # CellIndex(sim, pick.x, pick.y)
                    => sim'.data[CellIndex(sim, pick.x, pick.y) + i]
                         = sim.interactionBuffer[i]]_vars

\* ------------------------------------------------------------------------
\* C23.  An interaction that closes no epoch touches the grid only in its
\* write-back, and only in the cells A and B: every other byte is kept;
\* afterwards cell A holds the first tapeSize bytes of the working buffer
\* the VM ran on and cell B the last tapeSize bytes.
\* ------------------------------------------------------------------------
InteractionWritesOnlyItsCells ==
  [][/\ act' \in { "pickA", "pickB", "execute" } => sim'.data = sim.data
     /\ (act' = "writeBack" /\ act = "execute") =>
          \E T \in { sim.config.tapeSize } :
          \E idxA \in { CellIndex(sim, pick.x, pick.y) } :
          \E idxB \in { CellIndex(sim, pick.nx, pick.ny) } :
            /\ \A j \in DOMAIN sim.data :
                 (j \notin idxA .. idxA + T - 1 /\ j \notin idxB .. idxB + T - 1)
                   => sim'.data[j] = sim.data[j]
            /\ \A i \in 0 .. T - 1 :
                 /\ sim'.data[idxA + i] = sim.interactionBuffer[i]
                 /\ sim'.data[idxB + i] = sim.interactionBuffer[T + i]]_vars

\* ------------------------------------------------------------------------
\* C24.  execute with the jump table computed once before the main loop
\* returns the same complexity, copies and neighborWrites, and leaves the
\* same tape, as the execute that looks for the matching bracket when the
\* jump is taken.
\* ------------------------------------------------------------------------
JumpTableRefinesScan ==
  pc = "returned" =>
    /\ run.vm.complexity = run.scanning.complexity
    /\ run.vm.copies = run.scanning.copies
    /\ run.vm.neighborWrites = run.scanning.neighborWrites
    /\ run.vm.tape = run.scanning.tape

\* ------------------------------------------------------------------------
\* C25.  A pass that finds a taken bracket ('[' with tape[head0] = 0, ']'
\* with tape[head0] # 0) whose jump-table entry is -1 ends execute at once:
\* complexity, copies, neighborWrites and the tape are those of the passes
\* before it, the bracket is not counted, and no pass follows.
\* ------------------------------------------------------------------------
UnmatchedBracketReturns ==
  [][/\ (act' = "pass"
           /\ \E cur \in { Masked(run.vm.ip, TapeMask(run.T)) } :
              \E h0 \in { Masked(run.vm.head0, TapeMask(run.T)) } :
                /\ \/ run.vm.tape[cur] = CMD_JZ /\ run.vm.tape[h0] = 0
                   \/ run.vm.tape[cur] = CMD_JNZ /\ run.vm.tape[h0] # 0
                /\ run.vm.jumps[cur] = -1)
          => /\ run'.vm.returned
             /\ run'.vm.complexity = run.vm.complexity
             /\ run'.vm.copies = run.vm.copies
             /\ run'.vm.neighborWrites = run.vm.neighborWrites
             /\ run'.vm.tape = run.vm.tape
     /\ run.vm.returned
          => /\ act' = "return"
             /\ run'.vm = run.vm]_vars

\* A run ended by an unmatched bracket after passes that counted and wrote,
\* with passes left in its budget.
UnmatchedBracketReturnsSeen ==
  /\ pc = "returned"
  /\ run.vm.returned
  /\ run.vm.complexity > 0
  /\ run.vm.tape # run.given
  /\ run.vm.cycles < run.limit

\* ------------------------------------------------------------------------
\* C26.  A pass that executes '.' adds one to copies, and one to
\* neighborWrites exactly when head1 points at or beyond tapeSize at that
\* moment; a pass that executes ',' adds one to copies and nothing to
\* neighborWrites, wherever the heads are.
\* ------------------------------------------------------------------------
CopyCounters ==
  [][act' = "pass" =>
       \E instr \in { run.vm.tape[Masked(run.vm.ip, TapeMask(run.T))] } :
       \E h1 \in { Masked(run.vm.head1, TapeMask(run.T)) } :
         /\ instr = CMD_COPY_0_TO_1 =>
              /\ run'.vm.copies = run.vm.copies + 1
              /\ run'.vm.neighborWrites =
                   run.vm.neighborWrites + (IF h1 >= run.T THEN 1 ELSE 0)
         /\ instr = CMD_COPY_1_TO_0 =>
              /\ run'.vm.copies = run.vm.copies + 1
              /\ run'.vm.neighborWrites = run.vm.neighborWrites]_vars

\* A run whose '.' wrote at tapeSize exactly and whose ',' was executed
\* with head1 still there: two copies, one of them a neighbour write.
CopyCountersSeen ==
  /\ pc = "returned"
  /\ run.given = [i \in 0 .. 3 |->
                    << CMD_H1_INC, CMD_H1_INC, CMD_COPY_0_TO_1,
                       CMD_COPY_1_TO_0 >>[i + 1]]
  /\ run.limit = 4
  /\ run.vm.head1 = run.T
  /\ run.vm.copies = 2
  /\ run.vm.neighborWrites = 1

\* ------------------------------------------------------------------------
\* C27.  A pass over a byte that is none of the ten opcodes (0 included)
\* leaves the tape, head0, head1, complexity, copies and neighborWrites as
\* they are, adds one to ip and one to cycles, and does not end the run.
\* ------------------------------------------------------------------------
NoOpcodeOnlyAdvances ==
  [][(act' = "pass"
        /\ run.vm.tape[Masked(run.vm.ip, TapeMask(run.T))]
             \notin { CMD_LEFT, CMD_RIGHT, CMD_H1_DEC, CMD_H1_INC, CMD_DEC,
                      CMD_INC, CMD_COPY_0_TO_1, CMD_COPY_1_TO_0, CMD_JZ,
                      CMD_JNZ })
       => /\ run'.vm.tape = run.vm.tape
          /\ run'.vm.head0 = run.vm.head0
          /\ run'.vm.head1 = run.vm.head1
          /\ run'.vm.complexity = run.vm.complexity
          /\ run'.vm.copies = run.vm.copies
          /\ run'.vm.neighborWrites = run.vm.neighborWrites
          /\ run'.vm.ip = run.vm.ip + 1
          /\ run'.vm.cycles = run.vm.cycles + 1
          /\ ~run'.vm.returned]_vars

\* A run that passed over a zero byte and over a byte that '-' had made of
\* '[' (89), and executed opcodes behind each: four of its six passes count.
NoOpcodeOnlyAdvancesSeen ==
  /\ pc = "returned"
  /\ run.given[0] = CMD_JZ
  /\ run.given[1] = CMD_DEC
  /\ run.given[2] = 0
  /\ run.given[3] = CMD_DEC
  /\ run.vm.tape[0] = 88
  /\ run.vm.cycles = 6
  /\ run.vm.complexity = 4

\* ------------------------------------------------------------------------
\* C28.  With E = W*H*T*mutationRate, completeEpoch() overwrites floor(E)
\* or floor(E) + 1 bytes: it takes one draw and two more per overwrite, so
\* that many bytes at most differ afterwards, the grid keeps its indices
\* and every byte is in 0..255; with mutationRate = 0 the grid and the
\* generator are left as they are.
\* ------------------------------------------------------------------------
MutationCount ==
  [][act' = "completeEpoch" =>
       \E rate \in { sim.config.mutationRate } :
       \E floorE \in { (sim.width * sim.height * sim.config.tapeSize * rate.num)
                         \div rate.den } :
         /\ rate.num = 0 => (sim'.data = sim.data /\ sim'.rng = sim.rng)
         /\ rate.num # 0 =>
              \E k \in { floorE, floorE + 1 } :
                /\ k >= 0
                /\ sim'.rng = PRNGAdvanceBy(sim.rng, 1 + 2 * k)
                /\ Cardinality({ i \in DOMAIN sim.data :
                                   sim'.data[i] # sim.data[i] }) <= k
         /\ DOMAIN sim'.data = DOMAIN sim.data
         /\ \A i \in DOMAIN sim'.data : sim'.data[i] \in 0 .. 255]_vars

\* ------------------------------------------------------------------------
\* C29.  When step(n) calls made since reset() have returned, n being their
\* sum: in global topology on a grid of two cells or more the epoch counter
\* is floor(n / (W*H)) and the tally of the running epoch n mod (W*H); in
\* spatial topology the interactions counted in epochs and tally are n
\* less the picks that aborted.
\* ------------------------------------------------------------------------
StepPerformsInteractions ==
  pc = "idle" =>
    \E cells \in { sim.width * sim.height } :
      /\ (sim.config.topology = "global" /\ cells >= 2)
           => /\ sim.stats.epoch = total \div cells
              /\ sim.epochInteractions = total % cells
      /\ sim.config.topology = "spatial"
           => sim.stats.epoch * cells + sim.epochInteractions
                = total - run.aborted

\* ------------------------------------------------------------------------
\* C30.  The counters execute returns, which interact() adds to the tallies
\* of the epoch, satisfy 0 <= neighborWrites <= copies <= complexity <=
\* instructionLimit; and the averages completeEpoch() stores satisfy
\* effectiveReplication <= replicationRate <= avgComplexity.
\* ------------------------------------------------------------------------
CountersOrdered ==
  [][/\ act' = "execute" =>
          \E complexity \in
               { sim'.epochTotalComplexity - sim.epochTotalComplexity } :
          \E copies \in { sim'.epochTotalCopies - sim.epochTotalCopies } :
          \E neighborWrites \in
               { sim'.epochTotalEffectiveCopies - sim.epochTotalEffectiveCopies } :
            /\ 0 <= neighborWrites
            /\ neighborWrites <= copies
            /\ copies <= complexity
            /\ complexity <= sim.config.instructionLimit
     /\ ClosingEpoch =>
          /\ ~QuotGreater(sim'.stats.effectiveReplication,
                          sim'.stats.replicationRate)
          /\ ~QuotGreater(sim'.stats.replicationRate,
                          sim'.stats.avgComplexity)]_vars

\* An epoch closed with neighbour writes, with copies that were none, and
\* with instructions that were no copies.
CountersOrderedSeen ==
  /\ act = "completeEpoch"
  /\ sim.stats.effectiveReplication.num > 0
  /\ QuotGreater(sim.stats.replicationRate, sim.stats.effectiveReplication)
  /\ QuotGreater(sim.stats.avgComplexity, sim.stats.replicationRate)

====
